---- MODULE Spec2Model ----
(***************************************************************************)
(* PSBT value (de)serialization, src/util/psbt/serialize.rs.               *)
(*                                                                         *)
(* The module models the Serialize / Deserialize implementations for       *)
(* Script, PublicKey and the key-origin pair (Fingerprint,                 *)
(* Vec<ChildNumber>).  One run of the model is one use of a codec by a     *)
(* caller: the caller either holds a value and serializes it (and then     *)
(* deserializes the bytes again), or holds a byte string and deserializes  *)
(* it (and then serializes the value again).  The key-origin decoder is    *)
(* modelled statement by statement, one action per loop iteration.         *)
(*                                                                         *)
(* A u32 is kept at its full width as the record [hi, lo] with             *)
(* value = hi * 2^31 + lo, hi \in {0,1}, lo \in 0 .. 2^31 - 1.             *)
(***************************************************************************)
EXTENDS Integers, Sequences, FiniteSets, TLC

\* Longest byte string the caller hands to a decoder.
MaxLen == 12

\* Longest derivation path the caller serializes.
MaxSteps == 3

VARIABLES
    op,      \* which codec use this run is
    value,   \* the (Fingerprint, Vec<ChildNumber>) the caller serializes
    bytes,   \* the byte string: output of serialize / input of deserialize
    pc,      \* position in the code
    fprint,  \* local `fprint` of deserialize
    dpath,   \* local `dpath` of deserialize
    pos,     \* d.position() of the cursor over bytes[4..]
    iters,   \* number of loop iterations started
    lib,     \* what PublicKey::from_slice returned
    result,  \* what deserialize returned
    out      \* output of serialize applied to the deserialized value

vars == <<op, value, bytes, pc, fprint, dpath, pos, iters, lib, result, out>>

----------------------------------------------------------------------------
(* Values and errors *)

NoResult == [tag |-> "None"]
Ok(v)    == [tag |-> "Ok", value |-> v]
Err(e)   == [tag |-> "Err", err |-> e]
Panic    == [tag |-> "Panic"]

\* io::Error::from(io::ErrorKind::UnexpectedEof).into()
UnexpectedEof == [kind |-> "Io", io |-> "UnexpectedEof"]

\* encode::Error::ParseFailed(msg)
ParseFailed(msg) == [kind |-> "ParseFailed", msg |-> msg]

\* secp256k1::Error::InvalidPublicKey
InvalidPublicKey == [kind |-> "Secp256k1", err |-> "InvalidPublicKey"]

Normal(i)   == [variant |-> "Normal", index |-> i]
Hardened(i) == [variant |-> "Hardened", index |-> i]

Zeros(n) == [i \in 1..n |-> 0]

----------------------------------------------------------------------------
(* Collaborators of serialize.rs *)

\* u32::from(ChildNumber): Hardened sets bit 31.
U32FromChildNumber(c) ==
    IF c.variant = "Hardened" THEN [hi |-> 1, lo |-> c.index]
                              ELSE [hi |-> 0, lo |-> c.index]

\* <ChildNumber as From<u32>>::from: bit 31 selects Hardened and is cleared.
ChildNumberFromU32(n) ==
    IF n.hi = 1 THEN Hardened(n.lo) ELSE Normal(n.lo)

\* consensus::encode::serialize(&u32): four bytes, little endian.
ConsensusSerializeU32(n) ==
    << n.lo % 256,
       (n.lo \div 256) % 256,
       (n.lo \div 65536) % 256,
       (n.lo \div 16777216) + 128 * n.hi >>

\* u32 from four little-endian bytes.
U32FromLeBytes(s) ==
    [hi |-> s[4] \div 128,
     lo |-> s[1] + 256 * s[2] + 65536 * s[3] + 16777216 * (s[4] % 128)]

\* Decodable::consensus_decode(d) for u32 on a Cursor over `rest` at
\* position p: read_exact of 4 bytes, UnexpectedEof when fewer remain.
ConsensusDecodeU32(rest, p) ==
    IF Len(rest) - p < 4
    THEN [tag |-> "Err", err |-> UnexpectedEof, pos |-> p]
    ELSE [tag |-> "Ok",
          value |-> U32FromLeBytes(SubSeq(rest, p + 1, p + 4)),
          pos |-> p + 4]

\* Fingerprint::to_bytes / Fingerprint::from(&[u8]): the four bytes.
FingerprintToBytes(fp) == fp
FingerprintFrom(s) == [i \in 1..4 |-> s[i]]

\* Script::from(Vec<u8>) and Script::to_bytes: a script owns its bytes.
ScriptFrom(b) == [script |-> b]
ScriptToBytes(s) == s.script

\* secp256k1's PublicKey::from_slice: the structural checks are those of
\* the library's parser (33 bytes with prefix 02/03, 65 bytes with prefix
\* 04/06/07); whether the coordinates are a curve point is not computed
\* here, so both outcomes are allowed for a structurally well-formed input.
FromSliceOutcomes(b) ==
    IF \/ Len(b) = 33 /\ b[1] \in {2, 3}
       \/ Len(b) = 65 /\ b[1] \in {4, 6, 7}
    THEN {Ok([key |-> b]), Err(InvalidPublicKey)}
    ELSE {Err(InvalidPublicKey)}

----------------------------------------------------------------------------
(* serialize.rs *)

\* Variant: the script framed with a length byte, as the consensus encoding
\* of a script would be.
ScriptSerialize_prefixed(s) == <<Len(ScriptToBytes(s))>> \o ScriptToBytes(s)

\* impl Serialize for Script
ScriptSerialize(s) == ScriptToBytes(s)

\* impl Deserialize for Script
ScriptDeserialize(b) == Ok(ScriptFrom(b))

\* Variant: the library's error propagated instead of replaced.
PublicKeyDeserialize_propagate(r) == r

\* impl Deserialize for PublicKey: map_err over the library's result.
PublicKeyDeserialize(r) ==
    IF r.tag = "Ok" THEN r ELSE Err(ParseFailed("invalid public key"))

\* for cnum in self.1.iter() { rv.append(serialize(u32::from(cnum))) }
RECURSIVE AppendSteps(_, _)
AppendSteps(rv, steps) ==
    IF steps = <<>> THEN rv
    ELSE AppendSteps(rv \o ConsensusSerializeU32(U32FromChildNumber(Head(steps))),
                     Tail(steps))

Reverse(s) == [i \in 1..Len(s) |-> s[Len(s) + 1 - i]]

\* Variant: the path emitted leaf to root.
KeySerialize_reversed(v) == AppendSteps(FingerprintToBytes(v[1]), Reverse(v[2]))

\* impl Serialize for (Fingerprint, Vec<ChildNumber>)
KeySerialize(v) == AppendSteps(FingerprintToBytes(v[1]), v[2])

\* Variant: the length guard off by one.
TooShort_offByOne(b) == Len(b) < 3

\* if bytes.len() < 4
TooShort(b) == Len(b) < 4

\* &bytes[4..]
Rest(b) == SubSeq(b, 5, Len(b))

\* Variant: the position compared with the length of the whole input.
PositionAtEnd_wholeInput(p, b) == p = Len(b)

\* d.position() == (bytes.len() - 4) as u64
PositionAtEnd(p, b) == p = Len(b) - 4

\* Variant: the loop tests for an exhausted cursor before decoding.
LoopIteration_testFirst(b, p, path) ==
    LET d == ConsensusDecodeU32(Rest(b), p) IN
    IF p = Len(Rest(b))
    THEN [next |-> "break", pos |-> p, dpath |-> path, result |-> NoResult]
    ELSE IF d.tag = "Ok"
    THEN [next |-> IF PositionAtEnd(d.pos, b) THEN "break" ELSE "continue",
          pos |-> d.pos,
          dpath |-> Append(path, ChildNumberFromU32(d.value)),
          result |-> NoResult]
    ELSE [next |-> "return", pos |-> d.pos, dpath |-> path,
          result |-> Err(d.err)]

\* Variant: each decoded step is put in front of the path.
LoopIteration_pushFront(b, p, path) ==
    LET d == ConsensusDecodeU32(Rest(b), p) IN
    IF d.tag = "Ok"
    THEN [next |-> IF PositionAtEnd(d.pos, b) THEN "break" ELSE "continue",
          pos |-> d.pos,
          dpath |-> <<ChildNumberFromU32(d.value)>> \o path,
          result |-> NoResult]
    ELSE [next |-> "return", pos |-> d.pos, dpath |-> path,
          result |-> Err(d.err)]

\* Variant: a failed step decode ends the loop with the steps read so far.
LoopIteration_lenient(b, p, path) ==
    LET d == ConsensusDecodeU32(Rest(b), p) IN
    IF d.tag = "Ok"
    THEN [next |-> IF PositionAtEnd(d.pos, b) THEN "break" ELSE "continue",
          pos |-> d.pos,
          dpath |-> Append(path, ChildNumberFromU32(d.value)),
          result |-> NoResult]
    ELSE [next |-> "break", pos |-> d.pos, dpath |-> path,
          result |-> NoResult]

\* One iteration of the loop: decode a u32 at the cursor, push it, test the
\* position.  next is "break", "continue" or "return" (the Err arm).
LoopIteration(b, p, path) ==
    LET d == ConsensusDecodeU32(Rest(b), p) IN
    IF d.tag = "Ok"
    THEN [next |-> IF PositionAtEnd(d.pos, b) THEN "break" ELSE "continue",
          pos |-> d.pos,
          dpath |-> Append(path, ChildNumberFromU32(d.value)),
          result |-> NoResult]
    ELSE [next |-> "return", pos |-> d.pos, dpath |-> path,
          result |-> Err(d.err)]

----------------------------------------------------------------------------
(* Inputs *)

ByteVals == {0, 128}

ByteStrings == UNION {[1..n -> ByteVals] : n \in 0..MaxLen}

Fingerprints == {<<222, 173, 190, 239>>, <<0, 0, 0, 0>>}

ChildNumbers ==
    {Normal(0), Normal(1), Normal(16909060), Hardened(1), Hardened(2147483647)}

KeyOrigins ==
    {<<fp, steps>> : fp \in Fingerprints,
                     steps \in UNION {[1..n -> ChildNumbers] : n \in 0..MaxSteps}}

PubKeyX == [i \in 1..32 |-> IF i = 32 THEN 1 ELSE 121]

PubKeyInputs ==
    {<<>>, <<2>>, Zeros(33), Zeros(65),
     <<2>> \o PubKeyX, <<3>> \o PubKeyX, <<5>> \o PubKeyX,
     <<2>> \o Zeros(32), <<2>> \o PubKeyX \o <<0>>,
     <<4>> \o PubKeyX \o PubKeyX, <<2>> \o PubKeyX \o PubKeyX}

NoValue == <<Zeros(4), <<>>>>

----------------------------------------------------------------------------
(* The state machine *)

Init ==
    /\ fprint = <<>>
    /\ dpath = <<>>
    /\ pos = 0
    /\ iters = 0
    /\ lib = NoResult
    /\ result = NoResult
    /\ out = <<>>
    /\ \/ /\ op = "KeyOriginEncode"
          /\ value \in KeyOrigins
          /\ bytes = <<>>
          /\ pc = "ser"
       \/ /\ op = "KeyOriginDecode"
          /\ value = NoValue
          /\ bytes \in ByteStrings
          /\ pc = "check"
       \/ /\ op = "Script"
          /\ value = NoValue
          /\ bytes \in ByteStrings
          /\ pc = "script_de"
       \/ /\ op = "PublicKey"
          /\ value = NoValue
          /\ bytes \in PubKeyInputs
          /\ pc = "pk_de"

\* The caller serializes its key-origin value and hands the bytes to
\* deserialize.
Serialize ==
    /\ pc = "ser"
    /\ bytes' = KeySerialize(value)
    /\ pc' = "check"
    /\ UNCHANGED <<op, value, fprint, dpath, pos, iters, lib, result, out>>

\* deserialize, lines 71-73.
CheckLength ==
    /\ pc = "check"
    /\ IF TooShort(bytes)
       THEN /\ result' = Err(UnexpectedEof)
            /\ pc' = "done"
       ELSE /\ result' = result
            /\ pc' = "fprint"
    /\ UNCHANGED <<op, value, bytes, fprint, dpath, pos, iters, lib, out>>

\* deserialize, lines 75-78: the slices bytes[0..4] and bytes[4..] panic
\* when the input has fewer than 4 bytes.
ReadFingerprint ==
    /\ pc = "fprint"
    /\ IF Len(bytes) < 4
       THEN /\ result' = Panic
            /\ pc' = "done"
            /\ UNCHANGED <<fprint, dpath, pos>>
       ELSE /\ fprint' = FingerprintFrom(SubSeq(bytes, 1, 4))
            /\ dpath' = <<>>
            /\ pos' = 0
            /\ pc' = "loop"
            /\ result' = result
    /\ UNCHANGED <<op, value, bytes, iters, lib, out>>

\* deserialize, lines 79-90: one iteration of the loop.
Loop ==
    /\ pc = "loop"
    /\ LET it == LoopIteration(bytes, pos, dpath) IN
        /\ pos' = it.pos
        /\ dpath' = it.dpath
        /\ iters' = iters + 1
        /\ IF it.next = "return"
           THEN /\ result' = it.result
                /\ pc' = "done"
           ELSE /\ result' = result
                /\ pc' = IF it.next = "break" THEN "ret" ELSE "loop"
    /\ UNCHANGED <<op, value, bytes, fprint, lib, out>>

\* deserialize, line 92.
Return ==
    /\ pc = "ret"
    /\ result' = Ok(<<fprint, dpath>>)
    /\ pc' = "done"
    /\ UNCHANGED <<op, value, bytes, fprint, dpath, pos, iters, lib, out>>

\* The caller serializes the value deserialize returned.
ReSerialize ==
    /\ pc = "done"
    /\ result.tag = "Ok"
    /\ out' = KeySerialize(result.value)
    /\ pc' = "end"
    /\ UNCHANGED <<op, value, bytes, fprint, dpath, pos, iters, lib, result>>

\* Script::deserialize(bytes)
DeserializeScript ==
    /\ pc = "script_de"
    /\ result' = ScriptDeserialize(bytes)
    /\ pc' = "script_ser"
    /\ UNCHANGED <<op, value, bytes, fprint, dpath, pos, iters, lib, out>>

\* serialize of the script just deserialized
SerializeScript ==
    /\ pc = "script_ser"
    /\ result.tag = "Ok"
    /\ out' = ScriptSerialize(result.value)
    /\ pc' = "end"
    /\ UNCHANGED <<op, value, bytes, fprint, dpath, pos, iters, lib, result>>

\* PublicKey::deserialize(bytes)
DeserializePublicKey ==
    /\ pc = "pk_de"
    /\ \E r \in FromSliceOutcomes(bytes) :
        /\ lib' = r
        /\ result' = PublicKeyDeserialize(r)
    /\ pc' = "end"
    /\ UNCHANGED <<op, value, bytes, fprint, dpath, pos, iters, out>>

Next ==
    \/ Serialize
    \/ CheckLength
    \/ ReadFingerprint
    \/ Loop
    \/ Return
    \/ ReSerialize
    \/ DeserializeScript
    \/ SerializeScript
    \/ DeserializePublicKey

Spec == Init /\ [][Next]_vars

\* Every call runs to its return: nothing suspends a codec call.
FairSpec == Spec /\ WF_vars(Next)

----------------------------------------------------------------------------
(* Properties *)

KeyOriginOp == op \in {"KeyOriginEncode", "KeyOriginDecode"}

Returned == pc \in {"done", "end"}

\* Number of whole 4-byte steps after the fingerprint of b.
StepCount(b) == (Len(b) - 4) \div 4

\* Child number c is the one denoted by the little-endian 32-bit value at
\* bytes 4i+1 .. 4i+4 of b (1-based; step i counted from 1).
Denotes(c, b, i) ==
    /\ c.index = b[4 * i + 1] + 256 * b[4 * i + 2] + 65536 * b[4 * i + 3]
                 + 16777216 * (b[4 * i + 4] % 128)
    /\ (c.variant = "Hardened") <=> (b[4 * i + 4] >= 128)
    /\ c.variant \in {"Normal", "Hardened"}

\* C1: round trip of the key-origin pair: deserialize(serialize(v)) succeeds
\* and returns v, for every fingerprint and every path of N >= 0 steps.
C1_RoundTrip ==
    (op = "KeyOriginEncode" /\ Returned) => result = Ok(value)

\* C2: serialize of a key-origin pair with N steps returns 4 + 4*N bytes:
\* the fingerprint bytes, then the little-endian 32-bit encoding of each
\* step in path order, hardened steps carrying the high bit; DEADBEEF with
\* steps [0, 0x80000001] gives DE AD BE EF 00 00 00 00 01 00 00 80.
C2_SerializeLayout ==
    (op = "KeyOriginEncode" /\ pc # "ser") =>
        /\ Len(bytes) = 4 + 4 * Len(value[2])
        /\ \A i \in 1..4 : bytes[i] = value[1][i]
        /\ \A i \in 1..Len(value[2]) : Denotes(value[2][i], bytes, i)
        /\ (value = <<(<<222, 173, 190, 239>>), <<Normal(0), Hardened(1)>>>>)
            => bytes = <<222, 173, 190, 239, 0, 0, 0, 0, 1, 0, 0, 128>>

C2_Witness ==
    /\ op = "KeyOriginEncode"
    /\ pc = "check"
    /\ value = <<(<<222, 173, 190, 239>>), <<Normal(0), Hardened(1)>>>>
    /\ bytes = <<222, 173, 190, 239, 0, 0, 0, 0, 1, 0, 0, 128>>

\* C3: key-origin deserialize of an input shorter than 4 bytes returns
\* UnexpectedEof at once: the fingerprint slice is never read, no loop
\* iteration runs, and no call panics.
C3_ShortInputEof ==
    /\ result.tag # "Panic"
    /\ (KeyOriginOp /\ Len(bytes) < 4 /\ pc \notin {"ser", "check"}) =>
        /\ pc = "done"
        /\ result = Err(UnexpectedEof)
        /\ fprint = <<>>
        /\ iters = 0

C3_Witness ==
    /\ op = "KeyOriginDecode"
    /\ pc = "done"
    /\ Len(bytes) = 3
    /\ result = Err(UnexpectedEof)

\* C4: key-origin deserialize of exactly 4 bytes fails with UnexpectedEof in
\* the first loop iteration; it never returns a pair with an empty path.
C4_FourBytesEof ==
    (KeyOriginOp /\ Len(bytes) = 4 /\ pc # "ser") =>
        /\ result.tag # "Ok"
        /\ pc \notin {"ret", "end"}
        /\ Returned => (result = Err(UnexpectedEof) /\ iters = 1)

C4_Witness ==
    /\ KeyOriginOp
    /\ Len(bytes) = 4
    /\ pc = "done"
    /\ iters = 1
    /\ result = Err(UnexpectedEof)

\* C5: key-origin deserialize of 4 + 4*N bytes, N >= 1, succeeds with the
\* fingerprint equal to the first 4 bytes and exactly N steps, step i being
\* the one denoted by the little-endian value at its 4 bytes, in input order.
C5_DecodeWholeSteps ==
    (KeyOriginOp /\ Returned /\ Len(bytes) >= 8 /\ Len(bytes) % 4 = 0) =>
        /\ result.tag = "Ok"
        /\ result.value[1] = SubSeq(bytes, 1, 4)
        /\ Len(result.value[2]) = StepCount(bytes)
        /\ \A i \in 1..StepCount(bytes) : Denotes(result.value[2][i], bytes, i)

C5_Witness ==
    /\ op = "KeyOriginDecode"
    /\ pc = "done"
    /\ bytes = <<0, 0, 0, 128, 128, 0, 0, 0, 0, 0, 0, 128>>
    /\ result = Ok(<<(<<0, 0, 0, 128>>), <<Normal(128), Hardened(0)>>>>)

\* C6: key-origin deserialize of an input of at least 4 bytes whose
\* remainder after the fingerprint is not a multiple of 4 fails with
\* UnexpectedEof and returns no partial pair.
C6_FragmentEof ==
    (KeyOriginOp /\ Len(bytes) >= 4 /\ (Len(bytes) - 4) % 4 # 0) =>
        /\ result.tag # "Ok"
        /\ pc \notin {"ret", "end"}
        /\ Returned => result = Err(UnexpectedEof)

C6_Witness ==
    /\ op = "KeyOriginDecode"
    /\ pc = "done"
    /\ Len(bytes) = 10
    /\ Len(dpath) = 1
    /\ result = Err(UnexpectedEof)

\* C7: the script codec is the identity both ways: deserialize of any byte
\* string succeeds with a script holding exactly those bytes, and serialize
\* of that script returns the bytes unchanged, unframed.
C7_ScriptIdentity ==
    (op = "Script" /\ pc # "script_de") =>
        /\ result = Ok([script |-> bytes])
        /\ pc = "end" => out = bytes

C7_Witness ==
    /\ op = "Script"
    /\ pc = "end"
    /\ bytes = <<128, 0, 128>>
    /\ out = <<128, 0, 128>>

\* C8: public-key deserialize returns a key exactly when the curve library
\* accepts the bytes; otherwise, all-zero and empty input included, it
\* returns ParseFailed("invalid public key") and no other error.
C8_PublicKeyError ==
    (op = "PublicKey" /\ pc = "end") =>
        /\ lib.tag = "Ok" => result = lib
        /\ lib.tag # "Ok" => result = Err(ParseFailed("invalid public key"))
        /\ (\A i \in 1..Len(bytes) : bytes[i] = 0)
            => result = Err(ParseFailed("invalid public key"))

C8_Witness ==
    /\ op = "PublicKey"
    /\ pc = "end"
    /\ bytes = Zeros(33)
    /\ lib = Err(InvalidPublicKey)
    /\ result = Err(ParseFailed("invalid public key"))

\* C9: the key-origin decode loop terminates: an iteration returns an error
\* or advances the cursor by exactly 4; the position stays a multiple of 4,
\* never exceeds len - 4 and is below it whenever the loop continues; the
\* loop runs at most floor((len - 4) / 4) + 1 iterations and deserialize
\* returns.
C9_LoopState ==
    (KeyOriginOp /\ pc \in {"loop", "ret", "done", "end"} /\ Len(bytes) >= 4) =>
        /\ pos % 4 = 0
        /\ pos <= Len(bytes) - 4
        /\ iters <= StepCount(bytes) + 1
        /\ (pc = "loop" /\ iters > 0) => pos < Len(bytes) - 4

C9_LoopStep ==
    pc = "loop" =>
        \/ pc' = "done" /\ result'.tag = "Err" /\ pos' = pos
        \/ pc' \in {"loop", "ret"} /\ pos' = pos + 4
        \/ UNCHANGED vars

C9_LoopTerminates ==
    /\ []C9_LoopState
    /\ [][C9_LoopStep]_vars
    /\ (pc = "loop") ~> (pc = "done")

C9_Witness ==
    /\ op = "KeyOriginDecode"
    /\ pc = "done"
    /\ Len(bytes) = 11
    /\ iters = 2
    /\ pos = 4
    /\ result = Err(UnexpectedEof)

\* C10: the key-origin encoding is canonical: whenever deserialize(b)
\* succeeds, serialize of the result equals b, and deserialize succeeds
\* exactly on the strings of length 4 + 4*N with N >= 1.
C10_Canonical ==
    KeyOriginOp =>
        /\ pc = "end" => out = bytes
        /\ Returned =>
            ((result.tag = "Ok") <=> (Len(bytes) >= 8 /\ Len(bytes) % 4 = 0))

C10_Witness ==
    /\ op = "KeyOriginDecode"
    /\ pc = "end"
    /\ Len(bytes) = 12
    /\ out = bytes

====
